---- MODULE Spec2Model ----
(***************************************************************************)
(* The authentication / user-management backend: the user table, the       *)
(* bearer tokens clients hold, the dependency chain that resolves a token  *)
(* to a user (dependencies/auth.py), the repositories and the route        *)
(* handlers (routes/auth.py, routes/users.py).                             *)
(*                                                                         *)
(* Python's None and an absent query result are the empty sequence <<>>,   *)
(* a present value v is <<v>>.                                             *)
(***************************************************************************)
EXTENDS Integers, Sequences, FiniteSets, TLC

VARIABLES
    users,    \* the committed rows of table "users", in table order
    nextId,   \* the next value of the primary-key sequence
    now,      \* the clock
    held,     \* held[c]: the Authorization token client c keeps (<<>>: none)
    reg,      \* reg[r]: the register request r that passed its pre-check
    session,  \* session[r]: what request r flushed and has not yet committed
    last      \* the last completed request and its response

vars == <<users, nextId, now, held, reg, session, last>>

----------------------------------------------------------------------------
(* Bounds of the model. *)

MaxId == 3          \* ids 1..MaxId are handed out, then registration stops
MaxTime == 2        \* the clock runs 0..MaxTime
MaxPage == 3        \* listing asks for pages 1..MaxPage
MaxPageSize == 2    \* ... of 1..MaxPageSize items

Emails == {"admin@x.com", "a@x.com", "b@x.com"}
Passwords == {"password123", "hunter2hunter2"}
Names == {"A", "B"}
Clients == {"c1", "c2"}
Reqs == {"r1", "r2"}

None == <<>>
Some(v) == <<v>>

----------------------------------------------------------------------------
(* core.security: the password-hashing primitive and the token codec. *)

get_password_hash(password) == [hash_of |-> password]

verify_password(password, hashed) == hashed.hash_of = password

ACCESS_TOKEN_TTL == 1

SECRET_KEY == "secret"

Digits == <<"0", "1", "2", "3", "4", "5", "6", "7", "8", "9">>

\* str(n) for n >= 0: the decimal digits, most significant first.
RECURSIVE str(_)
str(n) == IF n < 10 THEN <<Digits[n + 1]>>
          ELSE str(n \div 10) \o <<Digits[(n % 10) + 1]>>

\* int(s) for a string of decimal digits.
RECURSIVE int(_)
int(s) == IF Len(s) = 0 THEN 0
          ELSE 10 * int(SubSeq(s, 1, Len(s) - 1))
               + ((CHOOSE d \in 1..10 : Digits[d] = s[Len(s)]) - 1)

\* issue: the claims of data plus an expiry, signed with the process secret.
create_access_token(data, t) ==
    [sub |-> data.sub, exp |-> t + ACCESS_TOKEN_TTL, sig |-> SECRET_KEY]

\* decode: the payload, or None for a bad signature, an expired token or a
\* token without a subject.
decode_access_token(token, t) ==
    IF token.sig # SECRET_KEY THEN None
    ELSE IF t >= token.exp THEN None
    ELSE IF token.sub = None THEN None
    ELSE Some([sub |-> token.sub, exp |-> token.exp])

\* What a client can send that this process never signed.
Garbage == [sub |-> None, exp |-> 0, sig |-> "forged"]

----------------------------------------------------------------------------
(* The outcome of a dependency or of a handler. *)

Raise(status, detail) ==
    [ok |-> FALSE, status |-> status, detail |-> detail, value |-> None]

Return(status, v) ==
    [ok |-> TRUE, status |-> status, detail |-> "", value |-> Some(v)]

----------------------------------------------------------------------------
(* repositories/base.py, repositories/user.py over a table `rows`. *)

\* select(...).where(...) ... scalar_one_or_none()
get_by_id(rows, id) ==
    LET hits == {i \in 1..Len(rows) : rows[i].id = id}
    IN  IF hits = {} THEN None ELSE Some(rows[CHOOSE i \in hits : TRUE])

get_by_email(rows, email) ==
    LET hits == {i \in 1..Len(rows) : rows[i].email = email}
    IN  IF hits = {} THEN None ELSE Some(rows[CHOOSE i \in hits : TRUE])

authenticate(rows, email, password) ==
    LET user == get_by_email(rows, email)
    IN  IF user = None THEN None
        ELSE IF ~verify_password(password, user[1].hashed_password) THEN None
        ELSE user

get_all(rows, skip, limit) ==
    IF skip >= Len(rows) THEN <<>>
    ELSE SubSeq(rows, skip + 1, IF skip + limit < Len(rows) THEN skip + limit ELSE Len(rows))

count(rows) == Len(rows)

\* The table without its unique index.
email_unique_off(rows, row) == TRUE

\* The unique index on users.email: no other row may hold the email of `row`.
email_unique(rows, row) == \A i \in 1..Len(rows) :
    rows[i].id # row.id => rows[i].email # row.email

IntegrityError == [ok |-> FALSE, rows |-> <<>>, value |-> None]

Flushed(rows, v) == [ok |-> TRUE, rows |-> rows, value |-> v]

\* BaseRepository.create: add, flush (the INSERT takes the next id and the
\* column defaults), refresh.
create(rows, data, id, t) ==
    LET instance == [id |-> id, email |-> data.email,
                     hashed_password |-> data.hashed_password, name |-> data.name,
                     is_active |-> TRUE, is_admin |-> FALSE,
                     created_at |-> t, updated_at |-> t]
    IN  IF ~email_unique(rows, instance) THEN IntegrityError
        ELSE Flushed(Append(rows, instance), Some(instance))

create_user(rows, data, id, t) ==
    create(rows, [email |-> data.email, name |-> data.name,
                  hashed_password |-> get_password_hash(data.password)], id, t)

\* update testing the value's truth, `if value:`, so that False is skipped.
update_truthy(rows, instance, data, t) ==
    LET set == [f \in DOMAIN instance |->
                   IF /\ f \in DOMAIN data
                      /\ data[f] # None
                      /\ ~(f = "is_active" /\ data[f] = Some(FALSE))
                   THEN data[f][1] ELSE instance[f]]
        new == IF set = instance THEN instance ELSE [set EXCEPT !.updated_at = t]
    IN  IF ~email_unique(rows, new) THEN IntegrityError
        ELSE Flushed([i \in 1..Len(rows) |-> IF rows[i].id = instance.id THEN new ELSE rows[i]],
                     Some(new))

\* BaseRepository.update: setattr for every key whose value is not None, then
\* flush (an UPDATE, which also sets updated_at, when a column changed).
update(rows, instance, data, t) ==
    LET set == [f \in DOMAIN instance |->
                   IF f \in DOMAIN data /\ data[f] # None THEN data[f][1] ELSE instance[f]]
        new == IF set = instance THEN instance ELSE [set EXCEPT !.updated_at = t]
    IN  IF ~email_unique(rows, new) THEN IntegrityError
        ELSE Flushed([i \in 1..Len(rows) |-> IF rows[i].id = instance.id THEN new ELSE rows[i]],
                     Some(new))

\* UserRepository.update_user: model_dump(exclude_unset=True) is `data` itself,
\* a function on the fields the request supplied.
update_user(rows, user, data, t) ==
    LET update_data ==
            IF "password" \in DOMAIN data
            THEN [k \in (DOMAIN data \ {"password"}) \cup {"hashed_password"} |->
                     IF k = "hashed_password" THEN Some(get_password_hash(data.password[1]))
                     ELSE data[k]]
            ELSE data
    IN  update(rows, user, update_data, t)

\* delete that removes no row.
delete_nothing(rows, instance) == Flushed(rows, None)

\* BaseRepository.delete
delete(rows, instance) ==
    Flushed(SelectSeq(rows, LAMBDA u : u.id # instance.id), None)

----------------------------------------------------------------------------
(* dependencies/auth.py *)

\* OAuth2PasswordBearer(tokenUrl=...), auto_error left at its default: a
\* request without a bearer Authorization header is answered 401 here.
oauth2_scheme(authorization) ==
    IF authorization = None THEN Raise(401, "Not authenticated")
    ELSE Return(200, authorization[1])

credentials_exception == Raise(401, "Could not validate credentials")

\* get_current_user without its is_active check.
current_user_of_any(token, rows, t) ==
    LET payload == decode_access_token(token, t)
    IN  IF payload = None THEN credentials_exception
        ELSE LET user == get_by_id(rows, int(payload[1].sub))
             IN  IF user = None THEN credentials_exception
                 ELSE Return(200, user[1])

\* get_current_user, from the token on.
current_user_of(token, rows, t) ==
    LET payload == decode_access_token(token, t)
    IN  IF payload = None THEN credentials_exception
        ELSE LET user_id == payload[1].sub
             IN  IF user_id = None THEN credentials_exception
                 ELSE LET user == get_by_id(rows, int(user_id))
                      IN  IF user = None THEN credentials_exception
                          ELSE IF ~user[1].is_active
                               THEN Raise(403, "Inactive user")
                          ELSE Return(200, user[1])

\* get_current_user letting an inactive user through.
get_current_user_unchecked(authorization, rows, t) ==
    LET token == oauth2_scheme(authorization)
    IN  IF ~token.ok THEN token ELSE current_user_of_any(token.value[1], rows, t)

get_current_user(authorization, rows, t) ==
    LET token == oauth2_scheme(authorization)
    IN  IF ~token.ok THEN token ELSE current_user_of(token.value[1], rows, t)

get_current_active_user(authorization, rows, t) ==
    LET current_user == get_current_user(authorization, rows, t)
    IN  IF ~current_user.ok THEN current_user
        ELSE IF ~current_user.value[1].is_active THEN Raise(403, "Inactive user")
        ELSE current_user

\* get_admin_user without its is_admin check.
get_admin_user_any(authorization, rows, t) ==
    get_current_user(authorization, rows, t)

get_admin_user(authorization, rows, t) ==
    LET current_user == get_current_user(authorization, rows, t)
    IN  IF ~current_user.ok THEN current_user
        ELSE IF ~current_user.value[1].is_admin
             THEN Raise(403, "Admin privileges required")
        ELSE current_user

optional_user_of(token, rows, t) ==
    LET payload == decode_access_token(token, t)
    IN  IF payload = None THEN Return(200, None)
        ELSE LET user_id == payload[1].sub
             IN  IF user_id = None THEN Return(200, None)
                 ELSE Return(200, get_by_id(rows, int(user_id)))

get_optional_user(authorization, rows, t) ==
    LET token == oauth2_scheme(authorization)
    IN  IF ~token.ok THEN token ELSE optional_user_of(token.value[1], rows, t)

----------------------------------------------------------------------------
(* schemas/user.py *)

UserResponse(u) ==
    [id |-> u.id, email |-> u.email, name |-> u.name, is_active |-> u.is_active,
     is_admin |-> u.is_admin, created_at |-> u.created_at,
     updated_at |-> u.updated_at]

Token(access_token) == [access_token |-> access_token, token_type |-> "bearer"]

\* UserUpdate: every field optional; a request is the function on the fields
\* it supplies, a supplied null being None.  The requests of this model
\* supply no field, one field, or the password and one other field.  An explicit null password is left
\* out: it reaches get_password_hash, which is defined on strings.
UserUpdateFields == {"email", "name", "password", "is_active"}

UserUpdateValues(k) ==
    CASE k = "email" -> {None} \cup {Some(e) : e \in Emails}
      [] k = "name" -> {None} \cup {Some(n) : n \in Names}
      [] k = "password" -> {Some(p) : p \in Passwords}
      [] k = "is_active" -> {None, Some(TRUE), Some(FALSE)}

UserUpdate ==
    {[k \in S |-> CASE k = "email" -> e [] k = "name" -> n
                     [] k = "password" -> p [] k = "is_active" -> a] :
        S \in {{}} \cup {{k} : k \in UserUpdateFields}
                  \cup {{"password", k} : k \in UserUpdateFields},
        e \in UserUpdateValues("email"), n \in UserUpdateValues("name"),
        p \in UserUpdateValues("password"), a \in UserUpdateValues("is_active")}

\* Attribute access on the schema: an unset field reads as its default, None.
field(data, k) == IF k \in DOMAIN data THEN data[k] ELSE None

\* UserCreate as the clients of this model send it.
UserCreate == {[email |-> e, name |-> "A", password |-> "password123"] : e \in Emails}

PAGE_SIZE_LIMIT == 100

----------------------------------------------------------------------------
(* The state after start-up: the table holds the seeded administrator
   and one registered user. *)

SeedAdmin ==
    [id |-> 1, email |-> "admin@x.com",
     hashed_password |-> get_password_hash("password123"), name |-> "A",
     is_active |-> TRUE, is_admin |-> TRUE, created_at |-> 0, updated_at |-> 0]

SeedUser ==
    [id |-> 2, email |-> "a@x.com",
     hashed_password |-> get_password_hash("password123"), name |-> "A",
     is_active |-> TRUE, is_admin |-> FALSE, created_at |-> 0, updated_at |-> 0]

NoRequest == [op |-> "none", auth |-> None, args |-> None, resp |-> Raise(0, "")]

Init ==
    /\ users = <<SeedAdmin, SeedUser>>
    /\ nextId = 3
    /\ now = 0
    /\ held = [c \in Clients |-> None]
    /\ reg = [r \in Reqs |-> None]
    /\ session = [r \in Reqs |-> None]
    /\ last = NoRequest

\* What a request may carry in the Authorization header: nothing, a string the
\* process never signed, or a token some client holds.
Auths == {None, Some(Garbage)} \cup {held[c] : c \in Clients}

\* The update requests that supply fields of F only.
UpdatesOf(F) == {d \in UserUpdate : DOMAIN d \subseteq F}

\* A request completes: `last` is the request and its response.  The next
\* request is taken up once the response was delivered.
Ready == last = NoRequest

Done(op, auth, args, resp) ==
    last' = [op |-> op, auth |-> auth, args |-> args, resp |-> resp]

deliver ==
    /\ last # NoRequest
    /\ last' = NoRequest
    /\ UNCHANGED <<users, nextId, now, held, reg, session>>

Tick ==
    /\ Ready
    /\ now < MaxTime
    /\ now' = now + 1
    /\ UNCHANGED <<users, nextId, held, reg, session, last>>

----------------------------------------------------------------------------
(* routes/auth.py *)

\* POST /auth/register, up to its first await: the pre-check.  A request that
\* passes it is in flight until its insert.
register_check(r, user_data) ==
    /\ Ready
    /\ reg[r] = None
    /\ nextId <= MaxId
    /\ IF get_by_email(users, user_data.email) # None
       THEN /\ Done("register", None, [data |-> user_data],
                    Raise(400, "Email already registered"))
            /\ UNCHANGED reg
       ELSE /\ reg' = [reg EXCEPT ![r] = Some(user_data)]
            /\ UNCHANGED last
    /\ UNCHANGED <<users, nextId, now, held, session>>

\* POST /auth/register, the rest: create_user, the response, the commit.  The
\* INSERT of an email another row holds fails on the unique index, and the
\* session is rolled back.
register_insert(r) ==
    /\ Ready
    /\ reg[r] # None
    /\ nextId <= MaxId + 1
    /\ LET user_data == reg[r][1]
           out == create_user(users, user_data, nextId, now)
       IN  IF ~out.ok
           THEN /\ Done("register", None, [data |-> user_data],
                        Raise(500, "Internal Server Error"))
                /\ UNCHANGED <<users, nextId>>
           ELSE /\ Done("register", None, [data |-> user_data],
                        Return(201, UserResponse(out.value[1])))
                /\ users' = out.rows
                /\ nextId' = nextId + 1
    /\ reg' = [reg EXCEPT ![r] = None]
    /\ UNCHANGED <<now, held, session>>


\* login issuing its token without the subject.
login_response_no_sub(rows, form_data, t) ==
    LET user == authenticate(rows, form_data.username, form_data.password)
    IN  IF user = None THEN Raise(401, "Incorrect email or password")
        ELSE IF ~user[1].is_active THEN Raise(403, "Inactive user")
        ELSE Return(200, Token(create_access_token([sub |-> None], t)))

\* POST /auth/login (form): the response.
login_response(rows, form_data, t) ==
    LET user == authenticate(rows, form_data.username, form_data.password)
    IN  IF user = None THEN Raise(401, "Incorrect email or password")
        ELSE IF ~user[1].is_active THEN Raise(403, "Inactive user")
        ELSE Return(200, Token(create_access_token([sub |-> str(user[1].id)], t)))

\* login_json without its is_active check.
login_json_response_any(rows, credentials, t) ==
    LET user == authenticate(rows, credentials.email, credentials.password)
    IN  IF user = None THEN Raise(401, "Incorrect email or password")
        ELSE Return(200, Token(create_access_token([sub |-> str(user[1].id)], t)))

\* POST /auth/token (JSON): the response.
login_json_response(rows, credentials, t) ==
    LET user == authenticate(rows, credentials.email, credentials.password)
    IN  IF user = None THEN Raise(401, "Incorrect email or password")
        ELSE IF ~user[1].is_active THEN Raise(403, "Inactive user")
        ELSE Return(200, Token(create_access_token([sub |-> str(user[1].id)], t)))

\* The client keeps the token a login gives it.
keep_token(c, resp) ==
    held' = IF resp.ok THEN [held EXCEPT ![c] = Some(resp.value[1].access_token)]
            ELSE held

login(c, username, password) ==
    /\ Ready
    /\ LET resp == login_response(users, [username |-> username, password |-> password], now)
       IN  /\ Done("login", None, [email |-> username, password |-> password], resp)
           /\ keep_token(c, resp)
           /\ UNCHANGED <<users, nextId, now, reg, session>>

login_json(c, email, password) ==
    /\ Ready
    /\ LET resp == login_json_response(users, [email |-> email, password |-> password], now)
       IN  /\ Done("login_json", None, [email |-> email, password |-> password], resp)
           /\ keep_token(c, resp)
           /\ UNCHANGED <<users, nextId, now, reg, session>>

----------------------------------------------------------------------------
(* routes/users.py *)

\* GET /users/me
get_current_user_profile(auth) ==
    /\ Ready
    /\ LET current_user == get_current_user(auth, users, now)
       IN  /\ Done("get_me", auth, None,
                   IF ~current_user.ok THEN current_user
                   ELSE Return(200, UserResponse(current_user.value[1])))
           /\ UNCHANGED <<users, nextId, now, held, reg, session>>

\* The update handlers without their check.
email_taken_never(rows, user, update_data) == FALSE

\* The check both update handlers make before writing.
email_taken(rows, user, update_data) ==
    /\ field(update_data, "email") # None
    /\ field(update_data, "email")[1] # user.email
    /\ get_by_email(rows, field(update_data, "email")[1]) # None

\* The write of both update handlers and its response; an exception of the
\* flush rolls the session back (dependencies/database.py).
write_update(op, auth, args, user, update_data) ==
    LET out == update_user(users, user, update_data, now)
    IN  IF ~out.ok
        THEN /\ Done(op, auth, args, Raise(500, "Internal Server Error"))
             /\ UNCHANGED users
        ELSE /\ Done(op, auth, args, Return(200, UserResponse(out.value[1])))
             /\ users' = out.rows

\* PATCH /users/me
update_current_user_profile(auth, update_data) ==
    /\ Ready
    /\ LET current_user == get_current_user(auth, users, now)
           args == [data |-> update_data]
       IN  /\ IF ~current_user.ok
              THEN Done("update_me", auth, args, current_user) /\ UNCHANGED users
              ELSE IF email_taken(users, current_user.value[1], update_data)
              THEN Done("update_me", auth, args, Raise(400, "Email already registered"))
                   /\ UNCHANGED users
              ELSE write_update("update_me", auth, args, current_user.value[1], update_data)
           /\ UNCHANGED <<nextId, now, held, reg, session>>

skip_of(page, page_size) == (page - 1) * page_size

\* The page count rounded down.
total_pages_floor(total, page_size) == total \div page_size

total_pages_of(total, page_size) == (total + page_size - 1) \div page_size

\* GET /users
list_users(auth, page, page_size) ==
    /\ Ready
    /\ LET current_user == get_admin_user(auth, users, now)
           args == [page |-> page, page_size |-> page_size]
           skip == skip_of(page, page_size)
           items == get_all(users, skip, page_size)
           total == count(users)
           total_pages == total_pages_of(total, page_size)
       IN  /\ Done("list_users", auth, args,
                   IF ~current_user.ok THEN current_user
                   ELSE IF page < 1 \/ page_size < 1 \/ page_size > PAGE_SIZE_LIMIT
                   THEN Raise(422, "Validation error")
                   ELSE Return(200, [items |-> [i \in 1..Len(items) |-> UserResponse(items[i])],
                                     total |-> total, page |-> page,
                                     page_size |-> page_size, total_pages |-> total_pages]))
           /\ UNCHANGED <<users, nextId, now, held, reg, session>>

\* GET /users/{user_id}
get_user(auth, user_id) ==
    /\ Ready
    /\ LET current_user == get_admin_user(auth, users, now)
           user == get_by_id(users, user_id)
       IN  /\ Done("get_user", auth, [user_id |-> user_id],
                   IF ~current_user.ok THEN current_user
                   ELSE IF user = None THEN Raise(404, "User not found")
                   ELSE Return(200, UserResponse(user[1])))
           /\ UNCHANGED <<users, nextId, now, held, reg, session>>

\* PATCH /users/{user_id}
route_update_user(auth, user_id, update_data) ==
    /\ Ready
    /\ LET current_user == get_admin_user(auth, users, now)
           user == get_by_id(users, user_id)
           args == [user_id |-> user_id, data |-> update_data]
       IN  /\ IF ~current_user.ok
              THEN Done("update_user", auth, args, current_user) /\ UNCHANGED users
              ELSE IF user = None
              THEN Done("update_user", auth, args, Raise(404, "User not found"))
                   /\ UNCHANGED users
              ELSE IF email_taken(users, user[1], update_data)
              THEN Done("update_user", auth, args, Raise(400, "Email already registered"))
                   /\ UNCHANGED users
              ELSE write_update("update_user", auth, args, user[1], update_data)
           /\ UNCHANGED <<nextId, now, held, reg, session>>

\* DELETE /users/{user_id}
delete_user(auth, user_id) ==
    /\ Ready
    /\ LET current_user == get_admin_user(auth, users, now)
           user == get_by_id(users, user_id)
           args == [user_id |-> user_id]
       IN  /\ IF ~current_user.ok
              THEN Done("delete_user", auth, args, current_user) /\ UNCHANGED users
              ELSE IF user = None
              THEN Done("delete_user", auth, args, Raise(404, "User not found"))
                   /\ UNCHANGED users
              ELSE IF user[1].id = current_user.value[1].id
              THEN Done("delete_user", auth, args, Raise(400, "Cannot delete yourself"))
                   /\ UNCHANGED users
              ELSE /\ Done("delete_user", auth, args, Return(204, None))
                   /\ users' = delete(users, user[1]).rows
           /\ UNCHANGED <<nextId, now, held, reg, session>>

----------------------------------------------------------------------------
(* A route that depends on ActiveUser, and one that depends on OptionalUser. *)

active_user_route(auth) ==
    /\ Ready
    /\ Done("active_user", auth, None, get_current_active_user(auth, users, now))
    /\ UNCHANGED <<users, nextId, now, held, reg, session>>

optional_user_route(auth) ==
    /\ Ready
    /\ Done("optional_user", auth, None, get_optional_user(auth, users, now))
    /\ UNCHANGED <<users, nextId, now, held, reg, session>>

----------------------------------------------------------------------------
(* dependencies/database.py: the session of a request.  What a handler     *)
(* flushed is pending in the transaction of its session until get_db       *)
(* commits it; the other sessions read the committed rows only.            *)

\* The table with a pending write made permanent.
applied(rows, write) ==
    IF write.kind = "insert" THEN Append(rows, write.row)
    ELSE [i \in 1..Len(rows) |->
            IF rows[i].id = write.row.id THEN write.row ELSE rows[i]]

\* await session.commit()
commit(rows, write) == applied(rows, write)

\* A rollback that leaves the write in the table.
rollback_keeps(rows, write) == applied(rows, write)

\* await session.rollback()
rollback(rows, write) == rows

\* A write on a primary key or an email that the open transaction of another
\* session has written waits until that transaction ends.
waits(r, id, email) ==
    \E q \in Reqs \ {r} :
        /\ session[q] # None
        /\ LET w == session[q][1].write
           IN  \/ w.row.id = id
               \/ w.row.email = email
               \/ \E i \in 1..Len(users) :
                     users[i].id = w.row.id /\ users[i].email = email

\* What a session keeps between the flush of its handler and the commit.
pending(op, auth, args, write, resp) ==
    [op |-> op, auth |-> auth, args |-> args, write |-> write, resp |-> resp]

\* POST /auth/register after its pre-check, up to the return of the handler:
\* the INSERT is flushed into the transaction of the session.
register_flush(r) ==
    /\ Ready
    /\ reg[r] # None
    /\ session[r] = None
    /\ nextId <= MaxId + 1
    /\ ~waits(r, nextId, reg[r][1].email)
    /\ LET user_data == reg[r][1]
           out == create_user(users, user_data, nextId, now)
       IN  IF ~out.ok
           THEN /\ Done("register", None, [data |-> user_data],
                        Raise(500, "Internal Server Error"))
                /\ UNCHANGED <<nextId, session>>
           ELSE /\ session' = [session EXCEPT ![r] =
                       Some(pending("register", None, [data |-> user_data],
                                    [kind |-> "insert", row |-> out.value[1]],
                                    Return(201, UserResponse(out.value[1]))))]
                /\ nextId' = nextId + 1
                /\ UNCHANGED last
    /\ reg' = [reg EXCEPT ![r] = None]
    /\ UNCHANGED <<users, now, held>>

\* The flush of the INSERT fails in the storage layer: the exception leaves
\* the handler and get_db rolls back.
register_flush_error(r) ==
    /\ Ready
    /\ reg[r] # None
    /\ session[r] = None
    /\ Done("register", None, [data |-> reg[r][1]], Raise(500, "Internal Server Error"))
    /\ reg' = [reg EXCEPT ![r] = None]
    /\ UNCHANGED <<users, nextId, now, held, session>>

\* PATCH /users/me up to the return of the handler: the UPDATE is flushed
\* into the transaction of the session.
update_current_user_profile_flush(r, auth, update_data) ==
    /\ Ready
    /\ session[r] = None
    /\ LET current_user == get_current_user(auth, users, now)
           args == [data |-> update_data]
       IN  IF ~current_user.ok
           THEN Done("update_me", auth, args, current_user) /\ UNCHANGED session
           ELSE IF email_taken(users, current_user.value[1], update_data)
           THEN Done("update_me", auth, args, Raise(400, "Email already registered"))
                /\ UNCHANGED session
           ELSE LET out == update_user(users, current_user.value[1], update_data, now)
                IN  IF ~out.ok
                    THEN Done("update_me", auth, args, Raise(500, "Internal Server Error"))
                         /\ UNCHANGED session
                    ELSE /\ ~waits(r, out.value[1].id, out.value[1].email)
                         /\ session' = [session EXCEPT ![r] =
                                Some(pending("update_me", auth, args,
                                             [kind |-> "update", row |-> out.value[1]],
                                             Return(200, UserResponse(out.value[1]))))]
                         /\ UNCHANGED last
    /\ UNCHANGED <<users, nextId, now, held, reg>>

\* get_db after the handler returned: the commit makes the write permanent
\* and the response goes out.
get_db_commit(r) ==
    /\ Ready
    /\ session[r] # None
    /\ LET s == session[r][1]
       IN  /\ users' = commit(users, s.write)
           /\ Done(s.op, s.auth, s.args, s.resp)
    /\ session' = [session EXCEPT ![r] = None]
    /\ UNCHANGED <<nextId, now, held, reg>>

\* get_db when the commit raises: the except branch rolls back and re-raises.
get_db_rollback(r) ==
    /\ Ready
    /\ session[r] # None
    /\ LET s == session[r][1]
       IN  /\ users' = rollback(users, s.write)
           /\ Done(s.op, s.auth, s.args, Raise(500, "Internal Server Error"))
    /\ session' = [session EXCEPT ![r] = None]
    /\ UNCHANGED <<nextId, now, held, reg>>

----------------------------------------------------------------------------

(* The system under three loads.  SpecAuth: logins, the clock and every     *)
(* token-gated route, updates touching is_active only.  SpecStore: the     *)
(* writers of the table (register, update of the email, delete) and its    *)
(* readers, the clock standing still.  SpecUpdate: update requests of      *)
(* every shape against the clock.                                          *)

NextAuth ==
    \/ Tick
    \/ deliver
    \/ \E c \in Clients, e \in Emails, p \in Passwords : login(c, e, p)
    \/ \E c \in Clients, e \in Emails, p \in Passwords : login_json(c, e, p)
    \/ \E a \in Auths : get_current_user_profile(a)
    \/ \E a \in Auths : active_user_route(a)
    \/ \E a \in Auths : optional_user_route(a)
    \/ \E a \in Auths, d \in UpdatesOf({"is_active"}) : update_current_user_profile(a, d)
    \/ \E a \in Auths, p \in 1..MaxPage, s \in 1..MaxPageSize : list_users(a, p, s)
    \/ \E a \in Auths, i \in 1..MaxId : get_user(a, i)
    \/ \E a \in Auths, i \in 1..MaxId, d \in UpdatesOf({"is_active"}) :
          route_update_user(a, i, d)
    \/ \E a \in Auths, i \in 1..MaxId : delete_user(a, i)

SpecAuth == Init /\ [][NextAuth]_vars

NextStore ==
    \/ deliver
    \/ \E r \in Reqs, d \in UserCreate : register_check(r, d)
    \/ \E r \in Reqs : register_insert(r)
    \/ \E c \in Clients, e \in Emails : login_json(c, e, "password123")
    \/ \E a \in Auths, d \in UpdatesOf({"email"}) : update_current_user_profile(a, d)
    \/ \E a \in Auths, p \in 0..MaxPage, s \in 0..MaxPageSize : list_users(a, p, s)
    \/ \E a \in Auths, i \in 1..MaxId : get_user(a, i)
    \/ \E a \in Auths, i \in 1..MaxId, d \in UpdatesOf({"email"}) :
          route_update_user(a, i, d)
    \/ \E a \in Auths, i \in 1..MaxId : delete_user(a, i)

SpecStore == Init /\ [][NextStore]_vars

NextUpdate ==
    \/ Tick
    \/ deliver
    \/ \E p \in Passwords : login("c1", "admin@x.com", p)
    \/ \E d \in UserUpdate : update_current_user_profile(held["c1"], d)
    \/ \E i \in 1..nextId, d \in UserUpdate : route_update_user(held["c1"], i, d)

SpecUpdate == Init /\ [][NextUpdate]_vars

\* Requests whose handler and commit are separate steps, so that the sessions
\* of two requests overlap, and a reader of the table.
NextTxn ==
    \/ deliver
    \/ \E e \in Emails : login_json("c1", e, "password123")
    \/ \E r \in Reqs, d \in UserCreate : register_check(r, d)
    \/ \E r \in Reqs : register_flush(r)
    \/ \E r \in Reqs : register_flush_error(r)
    \/ \E r \in Reqs, d \in UpdatesOf({"email"}) :
          update_current_user_profile_flush(r, held["c1"], d)
    \/ \E r \in Reqs : get_db_commit(r)
    \/ \E r \in Reqs : get_db_rollback(r)
    \/ \E i \in 1..MaxId : get_user(held["c1"], i)

SpecTxn == Init /\ [][NextTxn]_vars

----------------------------------------------------------------------------
(* The properties.  `last` is a completed request with its response; the   *)
(* routes that only read leave users and now as the request found them.    *)

Rows == {users[i] : i \in 1..Len(users)}

\* The rows the request's token names: none without a token, with a token
\* that does not decode now, or with a subject no row has.
Subjects(auth) ==
    IF auth = None THEN {}
    ELSE LET payload == decode_access_token(auth[1], now)
         IN  IF payload = None THEN {}
             ELSE {u \in Rows : str(u.id) = payload[1].sub}

Unauthorized(resp, detail) == resp = Raise(401, detail)

Forbidden(resp, detail) == resp = Raise(403, detail)

\* The response hands out user u.
Admits(resp, u) ==
    /\ resp.ok
    /\ resp.status = 200
    /\ resp.value[1].id = u.id
    /\ resp.value[1].email = u.email
    /\ resp.value[1].is_active = u.is_active
    /\ resp.value[1].is_admin = u.is_admin

RequiredOps == {"get_me", "active_user"}

\* C1 (as stated): required resolution admits the user iff the token decodes,
\* names a stored row and that row is active; no token, a token that does not
\* decode and a subject without a row all get 401 "Could not validate
\* credentials"; an inactive user gets 403 "Inactive user".
C1_RequiredAsStated ==
    last.op \in RequiredOps =>
        IF Subjects(last.auth) = {}
        THEN Unauthorized(last.resp, "Could not validate credentials")
        ELSE \A u \in Subjects(last.auth) :
                IF u.is_active THEN Admits(last.resp, u)
                ELSE Forbidden(last.resp, "Inactive user")

\* C1 (amended): as stated, except that a request without a token is answered
\* by the token-extraction step, with 401 "Not authenticated".
C1_Required ==
    last.op \in RequiredOps =>
        IF last.auth = None
        THEN Unauthorized(last.resp, "Not authenticated")
        ELSE IF Subjects(last.auth) = {}
        THEN Unauthorized(last.resp, "Could not validate credentials")
        ELSE \A u \in Subjects(last.auth) :
                IF u.is_active THEN Admits(last.resp, u)
                ELSE Forbidden(last.resp, "Inactive user")

\* A token that still decodes, of a user deleted since it was issued, was
\* refused with the generic 401.
C1_Witness ==
    /\ last.op = "get_me"
    /\ last.auth # None
    /\ decode_access_token(last.auth[1], now) # None
    /\ Subjects(last.auth) = {}
    /\ Unauthorized(last.resp, "Could not validate credentials")

\* C2: optional resolution never ends in an error: absent without a token,
\* with a token that does not decode or with a subject no row has, and the
\* user, whatever its flags, otherwise.
C2_OptionalNeverRaises ==
    last.op = "optional_user" =>
        /\ last.resp.ok
        /\ IF Subjects(last.auth) = {}
           THEN last.resp.value = Some(None)
           ELSE \A u \in Subjects(last.auth) : last.resp.value = Some(Some(u))

AdminOps == {"list_users", "get_user", "update_user", "delete_user"}

\* C3: an admin-gated request is admitted iff required resolution admits its
\* caller and the caller is an admin; otherwise it gets the failure of
\* required resolution (401, or 403 "Inactive user", an admin included) or
\* 403 "Admin privileges required", carries no user data and leaves the
\* table as it was.
C3_AdminGate ==
    [][(Ready /\ last'.op \in AdminOps) =>
        LET resp == last'.resp
            refused == ~resp.ok /\ resp.value = None /\ users' = users
        IN  IF Subjects(last'.auth) = {}
            THEN resp.status = 401 /\ refused
            ELSE \A u \in Subjects(last'.auth) :
                    IF ~u.is_active THEN Forbidden(resp, "Inactive user") /\ refused
                    ELSE IF ~u.is_admin
                    THEN Forbidden(resp, "Admin privileges required") /\ refused
                    ELSE resp.status \notin {401, 403}]_vars

\* An administrator whose account is inactive was refused as inactive.
C3_Witness ==
    /\ last.op \in AdminOps
    /\ Forbidden(last.resp, "Inactive user")
    /\ \E u \in Subjects(last.auth) : u.is_admin /\ ~u.is_active

LoginOps == {"login", "login_json"}

\* C5: either login gives a bearer token whose subject is the user's id iff a
\* row has exactly that email, its hash verifies the password and it is
\* active; 403 "Inactive user" when the credentials verify and the row is
\* inactive; 401 "Incorrect email or password" otherwise.  The table is left
\* as it was.
C5_Login ==
    [][(Ready /\ last'.op \in LoginOps) =>
        LET resp == last'.resp
            match == {u \in Rows : /\ u.email = last'.args.email
                                   /\ verify_password(last'.args.password,
                                                      u.hashed_password)}
        IN  /\ users' = users
            /\ IF match = {}
               THEN Unauthorized(resp, "Incorrect email or password")
               ELSE \A u \in match :
                       IF ~u.is_active THEN Forbidden(resp, "Inactive user")
                       ELSE /\ resp.ok
                            /\ resp.status = 200
                            /\ resp.value[1].token_type = "bearer"
                            /\ resp.value[1].access_token.sub = str(u.id)]_vars

\* The JSON login was refused for an inactive user whose password verified.
C5_Witness ==
    /\ last.op = "login_json"
    /\ Forbidden(last.resp, "Inactive user")
    /\ \E u \in Rows : /\ u.email = last.args.email
                       /\ verify_password(last.args.password, u.hashed_password)
                       /\ ~u.is_active

NoDuplicateEmail ==
    \A i, j \in 1..Len(users) : i # j => users[i].email # users[j].email

UpdateOps == {"update_me", "update_user"}

\* The row an update request is about, and whether its caller may make it.
Target(op, auth, args) ==
    IF op = "update_me" THEN Subjects(auth) ELSE {u \in Rows : u.id = args.user_id}

Authorised(op, auth) ==
    \E u \in Subjects(auth) : u.is_active /\ (op = "update_me" \/ u.is_admin)

Conflict(resp) == resp = Raise(400, "Email already registered")

\* C4: no two rows ever hold the same email; a register request whose email
\* is stored when it is checked fails with 400 "Email already registered" and
\* inserts nothing, and an update that would give a row the email of another
\* row fails the same way and changes nothing.
C4_UniqueEmail ==
    /\ []NoDuplicateEmail
    /\ [][/\ \A r \in Reqs : (reg[r] = None /\ reg'[r] # None) =>
                \A u \in Rows : u.email # reg'[r][1].email
          /\ (Ready /\ last'.op = "register" /\ reg' = reg) =>
                /\ \E u \in Rows : u.email = last'.args.data.email
                /\ Conflict(last'.resp)
                /\ users' = users
          /\ (Ready /\ last'.op \in UpdateOps /\ Authorised(last'.op, last'.auth)) =>
                \A t \in Target(last'.op, last'.auth, last'.args) :
                    LET email == field(last'.args.data, "email")
                    IN  (email # None /\ \E v \in Rows : v.id # t.id /\ v.email = email[1])
                            => Conflict(last'.resp) /\ users' = users]_vars

\* An update asked for the email of another row and was refused.
C4_Witness ==
    /\ last.op \in UpdateOps
    /\ Conflict(last.resp)
    /\ Authorised(last.op, last.auth)
    /\ \E v \in Rows : Some(v.email) = field(last.args.data, "email")

ActiveAdmins(auth) == {a \in Subjects(auth) : a.is_active /\ a.is_admin}

\* C6: an admin's delete of its own id is refused with 400 "Cannot delete
\* yourself" and removes nothing; of another stored id removes that row and
\* no other; of an id no row has answers 404 and removes nothing.  An id once
\* removed never comes back, and a lookup of an id no row has answers 404.
C6_AdminDelete ==
    [][/\ (Ready /\ last'.op = "delete_user") =>
             \A a \in ActiveAdmins(last'.auth) :
                 LET id == last'.args.user_id
                     target == {u \in Rows : u.id = id}
                 IN  IF target = {}
                     THEN last'.resp = Raise(404, "User not found") /\ users' = users
                     ELSE IF id = a.id
                     THEN /\ last'.resp = Raise(400, "Cannot delete yourself")
                          /\ users' = users
                     ELSE /\ last'.resp.status = 204
                          /\ Len(users') = Len(users) - 1
                          /\ {users'[i] : i \in 1..Len(users')} = Rows \ target
       /\ (Ready /\ last'.op = "get_user") =>
             \A a \in ActiveAdmins(last'.auth) :
                 (\A u \in Rows : u.id # last'.args.user_id)
                     => last'.resp = Raise(404, "User not found")
       /\ \A id \in 1..(MaxId + 1) :
             (id < nextId /\ \A u \in Rows : u.id # id)
                 => \A i \in 1..Len(users') : users'[i].id # id]_vars

\* The id of a deleted user was looked up and not found.
C6_Witness ==
    /\ last.op = "get_user"
    /\ last.resp = Raise(404, "User not found")
    /\ last.args.user_id < nextId

\* C9: a listing of page `page` and page size `page_size` within [1, 100]
\* reports the row count, its ceiling quotient by page_size as total_pages,
\* and the rows at offsets [(page-1)*page_size, min(page*page_size, total)).
C9_Pagination ==
    (last.op = "list_users" /\ last.resp.ok) =>
        LET page == last.args.page
            page_size == last.args.page_size
            body == last.resp.value[1]
            total == Len(users)
            lo == (page - 1) * page_size
            hi == IF page * page_size < total THEN page * page_size ELSE total
        IN  /\ page >= 1
            /\ page_size \in 1..PAGE_SIZE_LIMIT
            /\ body.total = total
            /\ body.page = page /\ body.page_size = page_size
            /\ body.total_pages * page_size >= total
            /\ (body.total_pages - 1) * page_size < total
            /\ Len(body.items) = (IF lo >= total THEN 0 ELSE hi - lo)
            /\ \A k \in 1..Len(body.items) : body.items[k] = UserResponse(users[lo + k])

\* The last page of a listing was asked for and is not full.
C9_Witness ==
    /\ last.op = "list_users"
    /\ last.resp.ok
    /\ last.args.page = last.resp.value[1].total_pages
    /\ last.args.page > 1
    /\ Len(last.resp.value[1].items) \in 1..(last.args.page_size - 1)

\* C10: a register request that passed its pre-check and finds, at its
\* insert, the email stored by a request that passed the same pre-check
\* beside it, is stopped by the unique index (the session fails and is rolled
\* back); otherwise its row is inserted.
C10_RegisterRace ==
    [][\A r \in Reqs : (reg[r] # None /\ reg'[r] = None) =>
          IF \E u \in Rows : u.email = reg[r][1].email
          THEN last'.resp = Raise(500, "Internal Server Error") /\ users' = users
          ELSE /\ last'.resp.status = 201
               /\ Len(users') = Len(users) + 1
               /\ users'[Len(users')].email = reg[r][1].email
               /\ \A i \in 1..Len(users) : users'[i] = users[i]]_vars

\* Two requests passed the pre-check with one email; the second to insert
\* was stopped.
C10_Witness ==
    /\ last.op = "register"
    /\ last.resp = Raise(500, "Internal Server Error")
    /\ \E u \in Rows : u.email = last.args.data.email

\* What an update request `data` asks of field f of a row that was `old` and
\* is `new`: a supplied value is stored (a supplied null asks for nothing,
\* a supplied password for a hash that verifies it), and a field that was
\* not supplied is as it was.
FieldUpdated(data, old, new, f) ==
    IF f = "hashed_password"
    THEN IF "password" \in DOMAIN data
         THEN verify_password(data.password[1], new.hashed_password)
         ELSE new.hashed_password = old.hashed_password
    ELSE IF f \in DOMAIN data /\ data[f] # None THEN new[f] = data[f][1]
    ELSE new[f] = old[f]

\* A completed update request left every row but its target as it was, and
\* the target's fields of F as the request asks; a refused one left the table.
UpdateWrites(F) ==
    (Ready /\ last'.op \in UpdateOps) =>
        IF ~last'.resp.ok THEN users' = users
        ELSE /\ Len(users') = Len(users)
             /\ \A i \in 1..Len(users) :
                   IF users[i].id # last'.resp.value[1].id THEN users'[i] = users[i]
                   ELSE \A f \in F : FieldUpdated(last'.args.data, users[i], users'[i], f)

UserColumns ==
    {"id", "email", "hashed_password", "name", "is_active", "is_admin",
     "created_at", "updated_at"}

\* C7 (as stated): an update changes exactly the fields the request supplies
\* and leaves every other field of that user, and every other user, as it
\* was; a supplied false takes effect; a supplied password replaces the hash.
C7_UpdateAsStated == [][UpdateWrites(UserColumns)]_vars

\* C7 (amended): as stated for every field but updated_at, which an update
\* that writes leaves as it was or sets to the time of the update.
C7_Update ==
    [][/\ UpdateWrites(UserColumns \ {"updated_at"})
       /\ (Ready /\ last'.op \in UpdateOps) =>
             \A i \in 1..Len(users') : \A j \in 1..Len(users) :
                 users'[i].id = users[j].id =>
                     users'[i].updated_at \in {users[j].updated_at, now}]_vars

\* A request supplied is_active = false alone; the flag is false and
\* updated_at moved to the time of the update.
C7_Witness ==
    /\ last.op \in UpdateOps
    /\ last.resp.ok
    /\ DOMAIN last.args.data = {"is_active"}
    /\ last.args.data["is_active"] = Some(FALSE)
    /\ \E u \in Rows : /\ u.id = last.resp.value[1].id
                       /\ ~u.is_active
                       /\ u.updated_at = now
                       /\ u.updated_at > u.created_at

----------------------------------------------------------------------------
(* C11 *)

\* The session of r holds a write that was flushed and is not committed.
Open(r) == session[r] # None

\* The step ends the request of session r.
Ends(r) == Open(r) /\ session'[r] = None /\ last' # NoRequest

\* The step makes write w permanent and nothing else: an inserted row is the
\* new last row, an updated row stands in the place of the row of its id.
Commits(w) ==
    IF w.kind = "insert"
    THEN users' = users \o <<w.row>>
    ELSE /\ Len(users') = Len(users)
         /\ \A i \in 1..Len(users) :
               users'[i] = IF users[i].id = w.row.id THEN w.row ELSE users[i]

\* No committed row is a row a session has pending: an inserted id is not in
\* the table, and the row of an updated id is the row as it was when the
\* update was flushed.
PendingInvisible ==
    \A r \in Reqs : Open(r) =>
        LET w == session[r][1].write
        IN  IF w.kind = "insert"
            THEN get_by_id(users, w.row.id) = None
            ELSE /\ get_by_id(users, w.row.id) # None
                 /\ \/ get_by_id(users, w.row.id)[1].email # w.row.email
                    \/ w.row = get_by_id(users, w.row.id)[1]

\* C11: the writes of a request are atomic.  A request that ends with an
\* exception, a failure of the flush or of the commit included, leaves the
\* committed table as it was; a request that ends without one makes its whole
\* write permanent in the step that ends it; the committed table changes in
\* no other step, so that no request reads a row that a failed request wrote.
C11_Atomic ==
    /\ []PendingInvisible
    /\ [][/\ (last' # NoRequest /\ ~last'.resp.ok) => users' = users
          /\ \A r \in Reqs : (Ends(r) /\ last'.resp.ok) =>
                /\ last'.resp = session[r][1].resp
                /\ Commits(session[r][1].write)
          /\ users' # users => \E r \in Reqs : Ends(r) /\ last'.resp.ok
         ]_vars

\* A request that flushed an INSERT ended with an exception while the session
\* of another request was open: the id it drew is in no row.
C11_Witness ==
    /\ last.op = "register"
    /\ last.resp = Raise(500, "Internal Server Error")
    /\ nextId > Len(users) + 1
    /\ \E r \in Reqs : Open(r)

----------------------------------------------------------------------------
(* C12 *)

\* The operations that resolve their caller by required resolution.
GatedOps == RequiredOps \cup {"update_me"} \cup AdminOps

\* The rows whose email and password a login request presents.
Presented(args) ==
    {u \in Rows : u.email = args.email /\ verify_password(args.password, u.hashed_password)}

\* The ids whose row is inactive before the step and active after it.
Reactivated ==
    {u.id : u \in {v \in Rows : ~v.is_active /\ get_by_id(users', v.id) # None
                                 /\ get_by_id(users', v.id)[1].is_active}}

\* C12: a request that carries the token of a user whose is_active is false,
\* or the email and password of such a user, changes no row and leaves its
\* client without a new token: the login is Forbidden, and the self-read,
\* the self-update and every admin-gated operation are refused as inactive
\* by required resolution.  An inactive row becomes active only through an
\* admin-update of that row by an active administrator who is another user.
C12_InactiveLockedOut ==
    [][/\ (Ready /\ last'.op \in GatedOps \cup {"optional_user"}
             /\ \E u \in Subjects(last'.auth) : ~u.is_active) =>
            /\ users' = users
            /\ held' = held
            /\ last'.op \in GatedOps => Forbidden(last'.resp, "Inactive user")
       /\ (Ready /\ last'.op \in LoginOps
             /\ \E u \in Presented(last'.args) : ~u.is_active) =>
            /\ Forbidden(last'.resp, "Inactive user")
            /\ users' = users
            /\ held' = held
       /\ \A i \in Reactivated :
            /\ last'.op = "update_user"
            /\ last'.args.user_id = i
            /\ last'.resp.ok
            /\ \E a \in Subjects(last'.auth) :
                  a.is_active /\ a.is_admin /\ a.id # i
      ]_vars

\* A user whose account is inactive asked through self-update to have it
\* active again, and was refused.
C12_Witness ==
    /\ last.op = "update_me"
    /\ field(last.args.data, "is_active") = Some(TRUE)
    /\ Forbidden(last.resp, "Inactive user")
    /\ \E u \in Subjects(last.auth) : ~u.is_active /\ ~u.is_admin

====
